---- MODULE Spec2Model ----
(***************************************************************************)
(* Amazon Connect migration scripts: the three exporters                   *)
(* (connect_user_export.py, connect_quick_connect_export.py,               *)
(* connect_queue_export.py) and the three importers                        *)
(* (connect_user_import.py, connect_queue_import.py,                       *)
(* connect_quick_connect_import.py), each run as one sequential script     *)
(* against a nondeterministic Connect service.                             *)
(***************************************************************************)
EXTENDS Integers, Sequences, FiniteSets, TLC

(***************************************************************************)
(* Bounds of the model.                                                    *)
(***************************************************************************)
MaxPages == 2        \* list requests the service answers before its last page
MaxPageLen == 2      \* summaries on one page of a listing
MaxItems == 2        \* entries of an export file read by an importer
MaxBatch == 2        \* largest --batch-size tried
MaxTaggedItems == 1  \* leading entries of an export file whose objects may carry Tags
MaxBatchFile == 4    \* users in an export file of BatchSpec
MaxBatchSize == 3    \* largest --batch-size of BatchSpec
MaxExportItems == 11 \* longest list of ExportLoopSpec

(***************************************************************************)
(* Python values.                                                          *)
(***************************************************************************)
None == "None"                       \* Python None, also an absent dict key (strings)
NoId == <<>>                         \* Python None where an Id of the target is expected
Truthy(x) == x # None /\ x # ""      \* truth value of an optional string
Range(s) == {s[n] : n \in 1..Len(s)}
SeqsUpTo(S, n) == UNION {[1..m -> S] : m \in 0..n}

RECURSIVE Concat(_)
Concat(ss) == IF ss = <<>> THEN <<>> ELSE Head(ss) \o Concat(Tail(ss))

RECURSIVE SumSeq(_)
SumSeq(s) == IF s = <<>> THEN 0 ELSE Head(s) + SumSeq(Tail(s))

Scripts == {"export_users", "export_quick_connects", "export_queues",
            "import_users", "import_queues", "import_quick_connects"}

VARIABLES
    script,          \* which script's main() is running
    pc,              \* position of the run
    \* ---- exporters ----
    next_token,      \* get_all_*: next_token
    items,           \* get_all_*: users / queues / quick_connects
    listReqs,        \* NextToken parameter of every list request sent, in order
    listResps,       \* every list response received, in order
    bu_tag_value,    \* ConnectQueueExporter.bu_tag_value
    queue_prefix,    \* ConnectQueueExporter.queue_prefix
    queue_cache,     \* build_queue_metadata_cache: queue_cache
    matching_queues, \* export_queues_by_bu_tag: matching_queues
    i,               \* index of the per-item loop (enumerate(..., 1))
    exported,        \* exported_users / exported_quick_connects / exported_queues
    failed_exports,  \* failed_exports
    fetchReqs,       \* every get_*_details call of the export loop: the Id and how it ended
    sinceSleep,      \* detail fetches made since the last time.sleep
    export_data,     \* <<export_data>> once the dict is built, <<>> before
    fileWritten,     \* TRUE once json.dump wrote output_file
    \* ---- importers ----
    file,            \* export_data loaded from export_file: Users / Queues / QuickConnects
    dry_run,         \* dry_run argument
    batch_size,      \* batch_size argument of import_users
    existing,        \* get_existing_resources() / get_existing_quick_connects() of the target
    pos,             \* number of file entries processed so far
    results,         \* results dict
    stepReqs,        \* requests issued while processing the latest entry, in order
    issued,          \* names of all request kinds issued so far in the run
    createCount,     \* per file entry: number of create_user/create_queue/create_quick_connect requests
    created,         \* objects the run has created in the target instance
    sleeps,          \* time.sleep calls between batches (import_users)
    batches,         \* import_users: sizes of the batches completed so far
    processed,       \* import_users: the entries the inner loop has taken, in order
    phone_number_mapping_file, \* import_queues: <<>> or <<the JSON of the --phone-mapping file>>
    phone_number_mapping       \* self.phone_number_mapping, as a set of <<source id, target id>>

expVars == <<next_token, items, listReqs, listResps, bu_tag_value, queue_prefix,
             queue_cache, matching_queues, i, exported, failed_exports,
             fetchReqs, sinceSleep, export_data, fileWritten>>
impVars == <<file, dry_run, batch_size, existing, pos, results, stepReqs,
             issued, createCount, created, sleeps, batches, processed>>
mapVars == <<phone_number_mapping_file, phone_number_mapping>>
vars == <<script, pc, expVars, impVars, mapVars>>

(***************************************************************************)
(* The source instance as the list_* operations present it.  The k-th      *)
(* listed object has Id k; every third summary carries no name field.      *)
(***************************************************************************)
Unknown == "Unknown"
SummaryNames == <<"alice", None, "bob">>
QueueNames == <<"Q_a", None, "q_b">>
SummaryName(kind, k) ==
    IF kind = "export_queues" THEN QueueNames[(k % 3) + 1]
    ELSE SummaryNames[(k % 3) + 1]
Summary(kind, k) == [Id |-> k, Name |-> SummaryName(kind, k)]
Page(kind, from, n) == [m \in 1..n |-> Summary(kind, from + m)]

Tokens == {"t1", "t2"}
ResponseTokens == {None, ""} \cup Tokens
Errors == {"ThrottlingException", "AccessDeniedException"}

\* summary.get('Username' / 'Name', 'Unknown')
GetName(summary) == IF summary.Name = None THEN Unknown ELSE summary.Name

(***************************************************************************)
(* Exporters: pagination.                                                  *)
(***************************************************************************)
\* params['NextToken'] is set only `if next_token`
RequestToken(tok) == IF Truthy(tok) THEN tok ELSE None

\* a loop that stops only on an absent NextToken, not on an empty one
BreakOnNoneOnly(tok) == tok = None

\* `if not next_token: break`
Break(tok) == ~Truthy(tok)

\* a listing loop that keeps only the page it fetched last
ExtendOverwrites(list, page) == page

\* users.extend(page_users)
Extend(list, page) == list \o page

\* position after the listing loop returned its list
AfterListing(list) ==
    IF list = <<>> THEN "returned"     \* `if not users: return output_file`
    ELSE IF script = "export_queues" THEN "cache" ELSE "export"

\* One iteration of `while True` in get_all_users, get_all_queues and
\* get_all_quick_connects (the three loops are the same code).
GetAllStep ==
    /\ pc = "list"
    /\ listReqs' = Append(listReqs, RequestToken(next_token))
    /\ \/ \* the list request raises: logged, re-raised, not caught by export_*
          /\ pc' = "raised"
          /\ UNCHANGED <<next_token, items, listResps>>
       \/ \E n \in 0..MaxPageLen, tok \in ResponseTokens :
             /\ Len(listReqs) + 1 >= MaxPages => ~Truthy(tok)
             /\ LET page == Page(script, Len(items), n) IN
                /\ items' = Extend(items, page)
                /\ listResps' = Append(listResps, [Items |-> page, NextToken |-> tok])
                /\ next_token' = tok
                /\ pc' = IF Break(tok) THEN AfterListing(items') ELSE "list"
    /\ UNCHANGED <<script, mapVars, bu_tag_value, queue_prefix, queue_cache, matching_queues,
                   i, exported, failed_exports, fetchReqs, sinceSleep, export_data,
                   fileWritten, impVars>>

get_all_users == script = "export_users" /\ GetAllStep
get_all_quick_connects == script = "export_quick_connects" /\ GetAllStep
get_all_queues == script = "export_queues" /\ GetAllStep

(***************************************************************************)
(* Exporters: the per-item loop of export_users / export_quick_connects.   *)
(***************************************************************************)
\* the entry appended to failed_exports in the `except Exception` branch
FailedEntry(id, name, error) == [Id |-> id, Name |-> name, Error |-> error]

\* a loop that repeats the iteration whose detail fetch failed
NextIndexRetries(n, outcome) == IF outcome = "ok" THEN n + 1 ELSE n

\* the index of the next iteration: the for loop advances whatever the outcome
NextIndex(n, outcome) == n + 1

\* position when the loop over a list of length len is to run iteration n
AfterItem(n, len) == IF n > len THEN "write" ELSE "export"

\* One iteration of `for i, summary in enumerate(list, 1)`; outcome is "ok" when
\* get_user_details / get_quick_connect_details / get_queue_details returns, or the
\* error it raises.  every is the period of the rate-limiting sleep.
ExportItem(list, every, outcome) ==
    /\ pc = "export"
    /\ i <= Len(list)
    /\ LET summary == list[i] IN
       /\ fetchReqs' = Append(fetchReqs, [Id |-> summary.Id, Outcome |-> outcome])
       /\ IF outcome = "ok"
          THEN /\ exported' = Append(exported, summary.Id)
               /\ sinceSleep' = IF i % every = 0 THEN 0 ELSE sinceSleep + 1
               /\ UNCHANGED failed_exports
          ELSE /\ failed_exports' = Append(failed_exports,
                                          FailedEntry(summary.Id, GetName(summary), outcome))
               /\ sinceSleep' = sinceSleep + 1
               /\ UNCHANGED exported
       /\ i' = NextIndex(i, outcome)
       /\ pc' = AfterItem(NextIndex(i, outcome), Len(list))
    /\ UNCHANGED <<script, mapVars, next_token, items, listReqs, listResps, bu_tag_value,
                   queue_prefix, queue_cache, matching_queues, export_data,
                   fileWritten, impVars>>

SleepEveryUsers == 10
SleepEveryQuickConnects == 10
SleepEveryQueues == 5

export_users ==
    /\ script = "export_users"
    /\ \E outcome \in {"ok"} \cup Errors : ExportItem(items, SleepEveryUsers, outcome)

export_quick_connects ==
    /\ script = "export_quick_connects"
    /\ \E outcome \in {"ok"} \cup Errors : ExportItem(items, SleepEveryQuickConnects, outcome)

\* export_data of export_users / export_quick_connects; Items is the 'Users' /
\* 'QuickConnects' list and Failed the 'FailedUsers' / 'FailedQuickConnects' list
ExportData(total, ok, failed) ==
    [Total |-> total, SuccessfulExports |-> Len(ok), FailedExports |-> Len(failed),
     Items |-> ok, Failed |-> failed]

\* "Prepare export data" and "Write to file" of export_users / export_quick_connects
WriteExport ==
    /\ script \in {"export_users", "export_quick_connects"}
    /\ pc = "write"
    /\ export_data' = <<ExportData(Len(items), exported, failed_exports)>>
    /\ \/ fileWritten' = TRUE /\ pc' = "returned"
       \/ fileWritten' = fileWritten /\ pc' = "raised"     \* open / json.dump raises
    /\ UNCHANGED <<script, mapVars, next_token, items, listReqs, listResps, bu_tag_value,
                   queue_prefix, queue_cache, matching_queues, i, exported,
                   failed_exports, fetchReqs, sinceSleep, impVars>>

(***************************************************************************)
(* Queue exporter: metadata cache, tag and prefix filters, export loop.    *)
(***************************************************************************)
\* str.lower() on the tag keys and values of the model
Lower(str) ==
    CASE str \in {"BU", "bu"} -> "bu"
      [] str \in {"SALES", "Sales", "sales"} -> "sales"
      [] str \in {"OPS", "Ops", "ops"} -> "ops"
      [] OTHER -> str

\* the characters of the queue names and prefixes of the model
Chars(str) ==
    CASE str = "Q_a" -> <<"Q", "_", "a">>
      [] str = "q_b" -> <<"q", "_", "b">>
      [] str = "Q_" -> <<"Q", "_">>
      [] str = "Unknown" -> <<"U", "n", "k", "n", "o", "w", "n">>
      \* phone mapping keys and their prefixes, cut where the prefix tests cut them
      [] str = "#" -> <<"#">>
      [] str = "# Add your mappings here" -> <<"#", " Add your mappings here">>
      [] str = "# source_id: target_id" -> <<"#", " source_id: target_id">>
      [] str = "example_" -> <<"example_">>
      [] str = "example_source_phone_id" -> <<"example_", "source_phone_id">>
      [] str = "example_target_phone_id" -> <<"example_", "target_phone_id">>
      [] str = "source-phone-id" -> <<"source-phone-id">>
      [] str = "source-phone-id-1" -> <<"source-phone-id", "-1">>
      [] str = "target-phone-id-1" -> <<"target-phone-id", "-1">>
      [] str = "phone-a" -> <<"phone-", "a">>
      [] str = "phone-b" -> <<"phone-", "b">>
      [] str = "phone-x" -> <<"phone-", "x">>
      [] str = "phone-y" -> <<"phone-", "y">>
      [] OTHER -> <<>>

\* str.startswith(prefix)
StartsWith(str, prefix) ==
    /\ Len(Chars(prefix)) <= Len(Chars(str))
    /\ SubSeq(Chars(str), 1, Len(Chars(prefix))) = Chars(prefix)

\* tag dicts list_tags_for_resource may return, as sets of <<key, value>>
TagSets == { {}, {<<"BU", "SALES">>}, {<<"bu", "Ops">>}, {<<"team", "Sales">>} }
SkipQueue == {<<"describe_queue", "ClientError">>}
BuTagValues == {"Sales"}
QueuePrefixes == {None, "Q_"}

\* a tag filter that compares keys and values case-sensitively
queue_matches_bu_tag_CaseSensitive(queue_tags) ==
    \E tag \in queue_tags : tag[1] = "bu" /\ tag[2] = bu_tag_value

queue_matches_bu_tag(queue_tags) ==
    \E tag \in queue_tags : Lower(tag[1]) = "bu" /\ Lower(tag[2]) = Lower(bu_tag_value)

queue_matches_name_prefix(queue_name) ==
    IF ~Truthy(queue_prefix) THEN TRUE ELSE StartsWith(queue_name, queue_prefix)

queue_matches_filters(queue_name, queue_tags) ==
    queue_matches_bu_tag(queue_tags) /\ queue_matches_name_prefix(queue_name)

\* "Fast local filtering on cached data" of export_queues_by_bu_tag
MatchingQueues(cache) ==
    SelectSeq(cache, LAMBDA q : queue_matches_bu_tag(q.Tags) /\ queue_matches_name_prefix(q.Name))

\* One iteration of the loop of build_queue_metadata_cache.  outcome is "skip" when
\* the summary has no Arn and describe_queue raises ClientError (`continue`), else
\* the tags of the queue ({} when it has no ARN or list_tags_for_resource fails).
\* After the last queue the cache is returned and filtered.
build_queue_metadata_cache ==
    /\ script = "export_queues"
    /\ pc = "cache"
    /\ i <= Len(items)
    /\ \E outcome \in {SkipQueue} \cup TagSets :
          LET summary == items[i]
              cache == IF outcome = SkipQueue THEN queue_cache
                       ELSE Append(queue_cache, [Id |-> summary.Id,
                                                 Name |-> GetName(summary),
                                                 Tags |-> outcome])
          IN  /\ queue_cache' = cache
              /\ IF i < Len(items)
                 THEN /\ i' = i + 1
                      /\ UNCHANGED <<pc, matching_queues>>
                 ELSE /\ i' = 1
                      /\ IF cache = <<>>
                         THEN pc' = "returned" /\ UNCHANGED matching_queues
                         ELSE /\ matching_queues' = MatchingQueues(cache)
                              /\ pc' = IF MatchingQueues(cache) = <<>>
                                       THEN "write" ELSE "export"
    /\ UNCHANGED <<script, mapVars, next_token, items, listReqs, listResps, bu_tag_value,
                   queue_prefix, exported, failed_exports, fetchReqs, sinceSleep,
                   export_data, fileWritten, impVars>>

\* One iteration of "Export matching queues" of export_queues_by_bu_tag
export_queues_by_bu_tag ==
    /\ script = "export_queues"
    /\ \E outcome \in {"ok"} \cup Errors : ExportItem(matching_queues, SleepEveryQueues, outcome)

\* "Create export data (even if empty)" of export_queues_by_bu_tag: the dict
\* literal evaluates len(all_queues), a name the function never binds, so
\* building export_data raises NameError before the file is opened.
WriteQueueExport ==
    /\ script = "export_queues"
    /\ pc = "write"
    /\ pc' = "raised"
    /\ UNCHANGED <<script, mapVars, expVars, impVars>>

(***************************************************************************)
(* Importers: identifiers and the target instance.                         *)
(***************************************************************************)
SourceId(name) == <<"source", name>>     \* Id of the object in the exported instance
TargetId(name) == <<"target", name>>     \* Id the target instance lists under name

\* existing_resources[kind].get(name), the dict being keyed by the names listed
Lookup(names, name) == IF name \in names THEN TargetId(name) ELSE NoId

DuplicateResourceException == "DuplicateResourceException"
CreateErrors == {DuplicateResourceException, "ThrottlingException"}

\* the outcome drawn for a request that is not issued
Unused == "ThrottlingException"

ZeroResults == [success |-> 0, failed |-> 0, skipped |-> 0, failed_items |-> <<>>]

\* 'Tags' of an exported object: <<>> when the key is absent, else <<the dict>>,
\* the dict being a set of <<key, value>>
ExportedTags == { <<>>, <<{}>>, <<{<<"Team", "Sales">>}>> }

\* 'Tags' the n-th entry of the export file (or its routing profile) may hold
TagsAt(n) == IF n <= MaxTaggedItems THEN ExportedTags ELSE {<<>>}

\* a creation that never passes Tags
RequestTagsDropped(tags) == <<>>

\* `if x.get('Tags'): create_params['Tags'] = x['Tags']`: the Tags parameter of
\* the request, <<>> when it is not passed
RequestTags(tags) == IF tags # <<>> /\ tags[1] # {} THEN tags ELSE <<>>

\* list(a_set): the elements in some order
ListOf(S) == {l \in [1..Cardinality(S) -> S] : Range(l) = S}

(***************************************************************************)
(* User importer (connect_user_import.py).                                 *)
(***************************************************************************)
Usernames == {"alice", "bob"}
RoutingProfileNames == {"Basic"}
SecurityProfileNames == {"Admin", "Agent"}
HierarchyGroupNames == {"Team"}

\* an exported security profile: the keys it has (None: key absent)
SecurityProfile(spn, name) == [SecurityProfileName |-> spn, Name |-> name]
SecurityProfileLists ==
    { <<>>,
      <<SecurityProfile("Admin", None)>>,
      <<SecurityProfile("Admin", None), SecurityProfile(None, "Agent")>>,
      <<SecurityProfile(None, None)>> }

\* the part of a 'Users' entry that analyze_security_profiles reads
UserEntries == [Username : Usernames, SecurityProfiles : SecurityProfileLists]

\* the whole entry: 'RoutingProfile' and 'HierarchyGroup' are the exported objects
\* (here their names) or None
UserData(user, rp, hg, tags, rpTags) ==
    [Username |-> user.Username, SecurityProfiles |-> user.SecurityProfiles,
     RoutingProfile |-> rp, HierarchyGroup |-> hg,
     Tags |-> tags,                    \* user_data['User'].get('Tags')
     RoutingProfileTags |-> rpTags]    \* user_data['RoutingProfile'].get('Tags')

\* outcomes of create_routing_profile followed, on a duplicate, by
\* find_routing_profile_by_name
RoutingOutcomes == {"created", "duplicate_found", "duplicate_not_found", "ThrottlingException"}

\* a creation of the missing routing profile that leaves its Tags out
create_missing_routing_profile_NoTags(name, tags, outcome) ==
    LET req == [op |-> "create_routing_profile", Name |-> name, Tags |-> <<>>,
                exported_tags |-> tags] IN
    CASE outcome = "created" ->
             [id |-> TargetId(name), reqs |-> <<req>>, created |-> {<<"routing_profile", name>>}]
      [] outcome = "duplicate_found" ->
             [id |-> TargetId(name),
              reqs |-> <<req, [op |-> "list_routing_profiles"]>>, created |-> {}]
      [] outcome = "duplicate_not_found" ->
             [id |-> NoId,
              reqs |-> <<req, [op |-> "list_routing_profiles"]>>, created |-> {}]
      [] OTHER ->
             [id |-> NoId, reqs |-> <<req>>, created |-> {}]

\* create_missing_routing_profile: [id, reqs, created]; tags is 'Tags' of the
\* exported routing profile
create_missing_routing_profile(name, tags, outcome) ==
    LET req == [op |-> "create_routing_profile", Name |-> name,
                Tags |-> RequestTags(tags),
                exported_tags |-> tags] IN
    CASE outcome = "created" ->
             [id |-> TargetId(name), reqs |-> <<req>>, created |-> {<<"routing_profile", name>>}]
      [] outcome = "duplicate_found" ->
             [id |-> TargetId(name),
              reqs |-> <<req, [op |-> "list_routing_profiles"]>>, created |-> {}]
      [] outcome = "duplicate_not_found" ->
             [id |-> NoId,
              reqs |-> <<req, [op |-> "list_routing_profiles"]>>, created |-> {}]
      [] OTHER ->  \* re-raised, caught and logged by map_resource_ids
             [id |-> NoId, reqs |-> <<req>>, created |-> {}]

\* the name map_resource_ids looks a security profile up by; None: `continue`
MappingName(sp) ==
    IF sp.SecurityProfileName # None THEN sp.SecurityProfileName
    ELSE IF sp.Name # None THEN sp.Name
    ELSE None

RECURSIVE MapSecurityProfiles(_, _)
MapSecurityProfiles(profiles, names) ==
    IF profiles = <<>> THEN <<>>
    ELSE LET id == IF MappingName(Head(profiles)) = None THEN NoId
                   ELSE Lookup(names, MappingName(Head(profiles)))
         IN  (IF id # NoId THEN <<id>> ELSE <<>>) \o MapSecurityProfiles(Tail(profiles), names)

\* a mapping that falls back on the exported hierarchy group's own Id
map_resource_ids_CopiesHierarchy(user_data, existing_resources, rpOutcome) ==
    LET found == IF user_data.RoutingProfile = None THEN NoId
                 ELSE Lookup(existing_resources.routing_profiles, user_data.RoutingProfile)
        made == IF user_data.RoutingProfile # None /\ found = NoId
                THEN create_missing_routing_profile(user_data.RoutingProfile,
                                                    user_data.RoutingProfileTags, rpOutcome)
                ELSE [id |-> found, reqs |-> <<>>, created |-> {}]
    IN  [routing_profile_id |-> made.id,
         security_profile_ids |->
             MapSecurityProfiles(user_data.SecurityProfiles, existing_resources.security_profiles),
         hierarchy_group_id |->
             IF user_data.HierarchyGroup = None THEN NoId
             ELSE IF user_data.HierarchyGroup \in existing_resources.hierarchy_groups
             THEN TargetId(user_data.HierarchyGroup)
             ELSE SourceId(user_data.HierarchyGroup),
         reqs |-> made.reqs,
         created |-> made.created]

\* map_resource_ids: (routing_profile_id, security_profile_ids, hierarchy_group_id),
\* with the requests it issued and what they created
map_resource_ids(user_data, existing_resources, rpOutcome) ==
    LET found == IF user_data.RoutingProfile = None THEN NoId
                 ELSE Lookup(existing_resources.routing_profiles, user_data.RoutingProfile)
        made == IF user_data.RoutingProfile # None /\ found = NoId
                THEN create_missing_routing_profile(user_data.RoutingProfile,
                                                    user_data.RoutingProfileTags, rpOutcome)
                ELSE [id |-> found, reqs |-> <<>>, created |-> {}]
    IN  [routing_profile_id |-> made.id,
         security_profile_ids |->
             MapSecurityProfiles(user_data.SecurityProfiles, existing_resources.security_profiles),
         hierarchy_group_id |->
             IF user_data.HierarchyGroup = None THEN NoId
             ELSE Lookup(existing_resources.hierarchy_groups, user_data.HierarchyGroup),
         reqs |-> made.reqs,
         created |-> made.created]

\* outcomes of a create_user / create_queue / create_quick_connect request
CreateOutcomes == {"created"} \cup CreateErrors

\* a creation that reports every rejection, duplicates included, as a failure
CreateResultDuplicateFails(outcome) == outcome = "created"

\* what create_user / create_queue / create_quick_connect returns when the
\* creation request ends with outcome
CreateResult(outcome) ==
    IF outcome = "created" THEN TRUE
    ELSE IF outcome = DuplicateResourceException THEN TRUE   \* "Consider existing ... as success"
    ELSE FALSE

\* create_user: [ok, reqs, created]
create_user(user_data, existing_resources, rpOutcome, outcome) ==
    LET m == map_resource_ids(user_data, existing_resources, rpOutcome)
        req == [op |-> "create_user", Username |-> user_data.Username,
                RoutingProfileId |-> m.routing_profile_id,
                SecurityProfileIds |-> m.security_profile_ids,
                HierarchyGroupId |-> m.hierarchy_group_id,   \* NoId: parameter not passed
                Tags |-> RequestTags(user_data.Tags),
                user_data |-> user_data,                     \* the entry the request is for
                response |-> outcome]
    IN  IF m.routing_profile_id = NoId \/ m.security_profile_ids = <<>>
        THEN [ok |-> FALSE, reqs |-> m.reqs, created |-> m.created]
        ELSE [ok |-> CreateResult(outcome), reqs |-> Append(m.reqs, req),
              created |-> m.created \cup
                          (IF outcome = "created" THEN {<<"user", user_data.Username>>} ELSE {})]

\* profile_name of analyze_security_profiles; not Truthy: the entry is not counted
AnalysisName(sp) ==
    IF Truthy(sp.SecurityProfileName) THEN sp.SecurityProfileName ELSE sp.Name

\* analyze_security_profiles: missing_profiles and affected_users
analyze_security_profiles(users_data, existing_resources) ==
    LET named(k) == {AnalysisName(users_data[k].SecurityProfiles[n]) :
                        n \in 1..Len(users_data[k].SecurityProfiles)} \ {None, ""}
        required_profiles == UNION {named(k) : k \in 1..Len(users_data)}
        missing_profiles == required_profiles \ existing_resources.security_profiles
    IN  [missing_profiles |-> missing_profiles,
         affected_users |-> {users_data[k].Username :
                                k \in {n \in 1..Len(users_data) : named(n) \cap missing_profiles # {}}}]

\* the early return of import_users: `security_analysis['missing_profiles'] and not dry_run`
MissingProfilesAbort(security_analysis, dry) ==
    security_analysis.missing_profiles # {} /\ ~dry

\* an early return that counts the missing profiles instead of the users
MissingProfilesFailedCountsProfiles(security_analysis) ==
    Cardinality(security_analysis.missing_profiles)

\* 'failed' of the dict returned when the import cannot proceed
MissingProfilesFailed(security_analysis) == Cardinality(security_analysis.affected_users)

\* results after one entry was counted as "success", "failed" or "skipped"; a
\* failed entry's name is appended to failed_users / failed_queues / failed_quick_connects
Count(res, kind, name) ==
    CASE kind = "success" -> [res EXCEPT !.success = @ + 1]
      [] kind = "skipped" -> [res EXCEPT !.skipped = @ + 1]
      [] OTHER -> [res EXCEPT !.failed = @ + 1, !.failed_items = Append(@, name)]

\* an inner loop that creates the user in dry runs too
ProcessUserIgnoresDryRun(user_data, existing_resources, dry, rpOutcome, outcome) ==
    LET c == create_user(user_data, existing_resources, rpOutcome, outcome) IN
    [kind |-> IF c.ok THEN "success" ELSE "failed", reqs |-> c.reqs, created |-> c.created]

\* the body of `try:` in the inner loop of import_users: [kind, reqs, created]
ProcessUser(user_data, existing_resources, dry, rpOutcome, outcome) ==
    IF dry
    THEN LET m == map_resource_ids(user_data, existing_resources, rpOutcome) IN
         [kind |-> IF m.routing_profile_id # NoId /\ m.security_profile_ids # <<>>
                   THEN "success" ELSE "skipped",
          reqs |-> m.reqs, created |-> m.created]
    ELSE LET c == create_user(user_data, existing_resources, rpOutcome, outcome) IN
         [kind |-> IF c.ok THEN "success" ELSE "failed", reqs |-> c.reqs, created |-> c.created]

\* a slice that takes one entry more than batch_size
MinOverlaps(a, b) == IF a + 1 <= b THEN a + 1 ELSE b

\* the end of the slice users_to_import[i:i + batch_size]
Min(a, b) == IF a <= b THEN a ELSE b

\* number of requests of kind op in reqs
CountOp(reqs, op) == Cardinality({n \in 1..Len(reqs) : reqs[n].op = op})

\* import_users up to the batch loop: load_export_data, get_existing_resources,
\* analyze_security_profiles and the two early returns
import_users_start ==
    /\ script = "import_users"
    /\ pc = "start"
    /\ IF file = <<>>
       THEN results' = ZeroResults /\ pc' = "returned"
       ELSE \/ pc' = "raised" /\ UNCHANGED results      \* get_existing_resources raises
            \/ LET security_analysis == analyze_security_profiles(file, existing) IN
               IF MissingProfilesAbort(security_analysis, dry_run)
               THEN /\ \E l \in ListOf(security_analysis.affected_users) :
                         results' = [success |-> 0,
                                     failed |-> MissingProfilesFailed(security_analysis),
                                     skipped |-> 0, failed_items |-> l]
                    /\ pc' = "returned"
               ELSE results' = ZeroResults /\ pc' = "loop"
    /\ UNCHANGED <<script, mapVars, expVars, file, dry_run, batch_size, existing, pos, stepReqs,
                   issued, createCount, created, sleeps, batches, processed>>

\* One iteration of `for user_data in batch` of import_users, with the end of
\* the batch ("Rate limiting between batches") when the user is its last.
\* a loop that sleeps after the last batch too
SleepAfterEveryBatch(dry, batch_num, total_batches) == ~dry

\* "Rate limiting between batches": `if not dry_run and batch_num < total_batches`
SleepBetweenBatches(dry, batch_num, total_batches) == ~dry /\ batch_num < total_batches

import_users ==
    /\ script = "import_users"
    /\ pc = "loop"
    /\ LET total_users == Len(file)
           start == batch_size * Len(batches)        \* i of range(0, total_users, batch_size)
           batch == SubSeq(file, start + 1, Min(start + batch_size, total_users))
           batch_num == (start \div batch_size) + 1
           total_batches == (total_users + batch_size - 1) \div batch_size
           k == pos - start + 1
           \* the requests that are issued whatever the service answers and
           \* whatever the Tags are: answers and Tags are drawn for these only
           asks(rp, hg, rpOutcome, op) ==
               CountOp(ProcessUser(UserData(batch[k], rp, hg, <<>>, <<>>), existing,
                                   dry_run, rpOutcome, Unused).reqs, op) > 0
       IN  \E rp \in {None} \cup RoutingProfileNames, hg \in {None} \cup HierarchyGroupNames :
           \E rpOutcome \in IF asks(rp, hg, Unused, "create_routing_profile")
                            THEN RoutingOutcomes ELSE {Unused},
              rpTags \in IF asks(rp, hg, Unused, "create_routing_profile")
                         THEN TagsAt(pos + 1) \ {<<{}>>} ELSE {<<>>} :
           \E outcome \in IF asks(rp, hg, rpOutcome, "create_user")
                          THEN CreateOutcomes ELSE {Unused},
              tags \in IF asks(rp, hg, rpOutcome, "create_user")
                       THEN TagsAt(pos + 1) ELSE {<<>>} :
              LET user_data == UserData(batch[k], rp, hg, tags, rpTags)
                  p == ProcessUser(user_data, existing, dry_run, rpOutcome, outcome)
              IN  /\ rpOutcome = "created" => <<"routing_profile", rp>> \notin created
                  /\ outcome = "created" => <<"user", user_data.Username>> \notin created
                  /\ stepReqs' = p.reqs
                  /\ issued' = issued \cup {p.reqs[n].op : n \in 1..Len(p.reqs)}
                  /\ createCount' = [createCount EXCEPT
                                        ![pos + 1] = @ + CountOp(p.reqs, "create_user")]
                  /\ created' = created \cup p.created
                  /\ results' = Count(results, p.kind, user_data.Username)
                  /\ processed' = Append(processed, batch[k])
                  /\ pos' = pos + 1
                  /\ IF k = Len(batch)
                     THEN /\ batches' = Append(batches, Len(batch))
                          /\ sleeps' = IF SleepBetweenBatches(dry_run, batch_num, total_batches)
                                        THEN sleeps + 1 ELSE sleeps
                     ELSE UNCHANGED <<batches, sleeps>>
                  /\ pc' = IF pos + 1 = total_users THEN "returned" ELSE "loop"
    /\ UNCHANGED <<script, mapVars, expVars, file, dry_run, batch_size, existing>>

(***************************************************************************)
(* Queue importer (connect_queue_import.py).                               *)
(***************************************************************************)
ImportQueueNames == {"Support", "Sales"}
QueueQuickConnectLists == { <<>>, <<"Desk">> }     \* 'QuickConnects' of a queue, by name
HoursOfOperationNames == {"24x7"}

\* a 'Queues' entry of the export file
QueueEntries == [Name : ImportQueueNames, QuickConnects : QueueQuickConnectLists]

\* outcomes of create_quick_connect followed, on a duplicate, by find_quick_connect_by_name
MissingQuickConnectOutcomes ==
    {"created", "duplicate_found", "duplicate_not_found", "ThrottlingException"}

\* create_missing_quick_connect: [id, reqs, created]
create_missing_quick_connect(qc_name, outcome) ==
    LET req == [op |-> "create_quick_connect", Name |-> qc_name] IN
    IF ~Truthy(qc_name) THEN [id |-> NoId, reqs |-> <<>>, created |-> {}]
    ELSE CASE outcome = "created" ->
                  [id |-> TargetId(qc_name), reqs |-> <<req>>,
                   created |-> {<<"quick_connect", qc_name>>}]
           [] outcome = "duplicate_found" ->
                  [id |-> TargetId(qc_name),
                   reqs |-> <<req, [op |-> "list_quick_connects"]>>, created |-> {}]
           [] outcome = "duplicate_not_found" ->
                  [id |-> NoId,
                   reqs |-> <<req, [op |-> "list_quick_connects"]>>, created |-> {}]
           [] OTHER -> [id |-> NoId, reqs |-> <<req>>, created |-> {}]

\* the loop of associate_quick_connects_to_queue over quick_connects[n..]:
\* [ids, reqs, created, quick_connects], the last being the updated cache
\* existing_resources['quick_connects']
RECURSIVE AssociateLoop(_, _, _, _)
AssociateLoop(quick_connects, n, known, outcomes) ==
    IF n > Len(quick_connects)
    THEN [ids |-> <<>>, reqs |-> <<>>, created |-> {}, quick_connects |-> known]
    ELSE LET qc_name == quick_connects[n]
             cached == IF Truthy(qc_name) THEN Lookup(known, qc_name) ELSE NoId
             made == IF Truthy(qc_name) /\ cached = NoId
                     THEN create_missing_quick_connect(qc_name, outcomes[n])
                     ELSE [id |-> cached, reqs |-> <<>>, created |-> {}]
             rest == AssociateLoop(quick_connects, n + 1,
                                   IF made.id # NoId THEN known \cup {qc_name} ELSE known,
                                   outcomes)
         IN  [ids |-> (IF made.id # NoId THEN <<made.id>> ELSE <<>>) \o rest.ids,
              reqs |-> made.reqs \o rest.reqs,
              created |-> made.created \cup rest.created,
              quick_connects |-> rest.quick_connects]

\* associate_quick_connects_to_queue: [reqs, created, quick_connects]
associate_quick_connects_to_queue(queue_id, queue_data, existing_resources, outcomes) ==
    LET l == AssociateLoop(queue_data.QuickConnects, 1, existing_resources.quick_connects, outcomes)
    IN  [reqs |-> IF l.ids # <<>>
                  THEN Append(l.reqs, [op |-> "associate_queue_quick_connects",
                                       QueueId |-> queue_id, QuickConnectIds |-> l.ids])
                  ELSE l.reqs,
         created |-> l.created,
         quick_connects |-> l.quick_connects]

\* map_hours_of_operation: the Id of the first hours of operation listed, or None
map_hours_of_operation(existing_resources) ==
    IF existing_resources.hours_of_operations # {}
    THEN TargetId(CHOOSE h \in existing_resources.hours_of_operations : TRUE)
    ELSE NoId

\* create_queue: [ok, reqs, created, quick_connects]
create_queue(queue_data, existing_resources, outcome, qcOutcomes) ==
    LET hours_of_operation_id == map_hours_of_operation(existing_resources)
        req == [op |-> "create_queue", Name |-> queue_data.Name,
                HoursOfOperationId |-> hours_of_operation_id,
                Tags |-> RequestTags(queue_data.Tags),
                exported_tags |-> queue_data.Tags, response |-> outcome]
        a == associate_quick_connects_to_queue(TargetId(queue_data.Name), queue_data,
                                               existing_resources, qcOutcomes)
    IN  IF hours_of_operation_id = NoId
        THEN [ok |-> FALSE, reqs |-> <<>>, created |-> {},
              quick_connects |-> existing_resources.quick_connects]
        ELSE IF outcome = "created"
        THEN [ok |-> CreateResult(outcome), reqs |-> <<req>> \o a.reqs,
              created |-> {<<"queue", queue_data.Name>>} \cup a.created,
              quick_connects |-> a.quick_connects]
        ELSE [ok |-> CreateResult(outcome), reqs |-> <<req>>, created |-> {},
              quick_connects |-> existing_resources.quick_connects]

\* an existence check that never finds the name
AlreadyExistsNever(name, names) == FALSE

\* `if queue_name in existing_resources['queues']` / `if qc_name in existing_qcs`
AlreadyExists(name, names) == name \in names

\* the body of `try:` in the loop of import_queues: [kind, reqs, created, quick_connects]
ProcessQueue(queue_data, existing_resources, dry, outcome, qcOutcomes) ==
    LET none == [reqs |-> <<>>, created |-> {},
                 quick_connects |-> existing_resources.quick_connects]
        c == create_queue(queue_data, existing_resources, outcome, qcOutcomes)
    IN  IF AlreadyExists(queue_data.Name, existing_resources.queues)
        THEN [kind |-> "skipped"] @@ none
        ELSE IF dry THEN [kind |-> "success"] @@ none
        ELSE [kind |-> IF c.ok THEN "success" ELSE "failed", reqs |-> c.reqs,
              created |-> c.created, quick_connects |-> c.quick_connects]

\* import_queues / import_quick_connects up to the loop: load_export_data, the
\* early return on an empty file, get_existing_resources
ImportStart ==
    /\ pc = "start"
    /\ IF file = <<>>
       THEN results' = ZeroResults /\ pc' = "returned"
       ELSE \/ pc' = "raised" /\ UNCHANGED results     \* listing the target raises
            \/ results' = ZeroResults /\ pc' = "loop"
    /\ UNCHANGED <<script, mapVars, expVars, file, dry_run, batch_size, existing, pos, stepReqs,
                   issued, createCount, created, sleeps, batches, processed>>

(***************************************************************************)
(* Phone number mapping files (connect_phone_number_mapper.py) and their   *)
(* load by import_queues.  A JSON object of strings is the set of its      *)
(* <<key, value>> pairs.                                                   *)
(***************************************************************************)
\* "phone_number_mappings" as create_mapping_template first writes it
TemplatePlaceholders ==
    { <<"example_source_phone_id", "example_target_phone_id">>,
      <<"# Add your mappings here", "# source_id: target_id">> }

\* source phone number Id -> target phone number Id
RealMappings == { <<"phone-a", "phone-x">>, <<"phone-b", "phone-y">> }

\* create_mapping_template: the JSON written, given the automatic mappings
create_mapping_template(auto_mappings) ==
    [phone_number_mappings |-> <<TemplatePlaceholders \cup auto_mappings>>,
     top |-> {}]

\* extract_mappings_only: the JSON written from a template file
extract_mappings_only(mapping_data) ==
    LET raw_mappings == IF mapping_data.phone_number_mappings = <<>> THEN {}
                        ELSE mapping_data.phone_number_mappings[1]
    IN  [phone_number_mappings |-> <<>>,
         top |-> {m \in raw_mappings :
                     /\ ~(StartsWith(m[1], "#") \/ StartsWith(m[2], "#"))
                     /\ ~StartsWith(m[1], "example_")}]

\* a template after the operator added mappings to it by hand
EditedTemplate(auto_mappings, added) ==
    [create_mapping_template(auto_mappings) EXCEPT !.phone_number_mappings = <<@[1] \cup added>>]

\* the --phone-mapping files: templates as written and as edited, what
\* extract_mappings_only makes of them, and hand-written simple files
MappingFiles ==
    LET templates == {EditedTemplate(a, b) : a \in SUBSET RealMappings, b \in SUBSET RealMappings}
    IN  templates
        \cup {extract_mappings_only(t) : t \in templates}
        \cup {[phone_number_mappings |-> <<>>, top |-> {<<"source-phone-id-1", "target-phone-id-1">>} \cup r] :
                  r \in SUBSET RealMappings}

\* clean_mappings of import_queues
clean_mappings(phone_mappings) ==
    {m \in phone_mappings :
        ~StartsWith(m[1], "#") /\ ~StartsWith(m[1], "source-phone-id")}

\* `if phone_number_mapping_file:` of import_queues
load_phone_number_mapping ==
    /\ script = "import_queues"
    /\ pc = "load"
    /\ \/ pc' = "raised" /\ UNCHANGED phone_number_mapping    \* open / json.load raises
       \/ LET mapping_data == phone_number_mapping_file[1]
              phone_mappings == IF mapping_data.phone_number_mappings # <<>>
                                THEN mapping_data.phone_number_mappings[1]
                                ELSE mapping_data.top
          IN  /\ phone_number_mapping' =
                     {m \in phone_number_mapping :
                         \A c \in clean_mappings(phone_mappings) : c[1] # m[1]}
                     \cup clean_mappings(phone_mappings)
              /\ pc' = "start"
    /\ UNCHANGED <<script, expVars, impVars, phone_number_mapping_file>>

import_queues_start == script = "import_queues" /\ ImportStart

\* One iteration of `for queue_data in queues_to_import` of import_queues
import_queues ==
    /\ script = "import_queues"
    /\ pc = "loop"
    /\ \E outcome \in CreateOutcomes, tags \in TagsAt(pos + 1),
          qcOutcomes \in [1..Len(file[pos + 1].QuickConnects) -> MissingQuickConnectOutcomes] :
          LET queue_data == file[pos + 1] @@ [Tags |-> tags]      \* queue_data.get('Tags')
              p == ProcessQueue(queue_data, existing, dry_run, outcome, qcOutcomes)
          IN  /\ outcome = "created" => <<"queue", queue_data.Name>> \notin created
              /\ CountOp(p.reqs, "create_queue") = 0 => outcome = Unused /\ tags = <<>>
              /\ CountOp(p.reqs, "create_quick_connect") = 0 =>
                     \A n \in DOMAIN qcOutcomes : qcOutcomes[n] = Unused
              /\ \A n \in DOMAIN qcOutcomes : qcOutcomes[n] = "created" =>
                     <<"quick_connect", queue_data.QuickConnects[n]>> \notin created
              /\ stepReqs' = p.reqs
              /\ issued' = issued \cup {p.reqs[n].op : n \in 1..Len(p.reqs)}
              /\ createCount' = [createCount EXCEPT ![pos + 1] = @ + CountOp(p.reqs, "create_queue")]
              /\ created' = created \cup p.created
              /\ existing' = [existing EXCEPT !.quick_connects = p.quick_connects]
              /\ results' = Count(results, p.kind, queue_data.Name)
    /\ pos' = pos + 1
    /\ pc' = IF pos + 1 = Len(file) THEN "returned" ELSE "loop"
    /\ UNCHANGED <<script, mapVars, expVars, file, dry_run, batch_size, sleeps, batches, processed>>

(***************************************************************************)
(* Quick connect importer (connect_quick_connect_import.py).               *)
(***************************************************************************)
ImportQuickConnectNames == {"Desk", "Escalation"}

\* 'QuickConnectConfig' of an exported quick connect; UserId / QueueId are Ids of
\* the exported instance
QuickConnectConfigs ==
    { [QuickConnectType |-> "USER", UserId |-> SourceId("alice"), QueueId |-> NoId],
      [QuickConnectType |-> "QUEUE", UserId |-> NoId, QueueId |-> SourceId("Support")],
      [QuickConnectType |-> "PHONE_NUMBER", UserId |-> NoId, QueueId |-> NoId] }

\* a 'QuickConnects' entry of the export file; Name None: the entry has no 'Name'
QuickConnectEntries ==
    [Name : {None} \cup ImportQuickConnectNames, QuickConnectConfig : QuickConnectConfigs]

\* map_quick_connect_config: qc_config.copy(); the USER and QUEUE branches only
\* log "mapping ... not fully implemented - using original ID"
map_quick_connect_config(qc_config, existing_resources) == qc_config

\* create_quick_connect: [ok, reqs, created]
create_quick_connect(qc_data, existing_resources, outcome) ==
    LET mapped_config == map_quick_connect_config(qc_data.QuickConnectConfig, existing_resources)
        req == [op |-> "create_quick_connect", Name |-> qc_data.Name,
                QuickConnectConfig |-> mapped_config,
                Tags |-> RequestTags(qc_data.Tags),
                exported_tags |-> qc_data.Tags, response |-> outcome]
    IN  IF ~Truthy(qc_data.Name)
        THEN [ok |-> FALSE, reqs |-> <<>>, created |-> {}]
        ELSE [ok |-> CreateResult(outcome), reqs |-> <<req>>,
              created |-> IF outcome = "created"
                          THEN {<<"quick_connect", qc_data.Name>>} ELSE {}]

MissingName == "Unknown - Missing Name"

\* the body of `try:` in the loop of import_quick_connects: [kind, name, reqs, created]
ProcessQuickConnect(qc_data, existing_resources, dry, outcome) ==
    LET none == [name |-> qc_data.Name, reqs |-> <<>>, created |-> {}]
        c == create_quick_connect(qc_data, existing_resources, outcome)
    IN  IF ~Truthy(qc_data.Name)
        THEN [kind |-> "failed", name |-> MissingName, reqs |-> <<>>, created |-> {}]
        ELSE IF AlreadyExists(qc_data.Name, existing_resources.quick_connects)
        THEN [kind |-> "skipped"] @@ none
        ELSE IF dry THEN [kind |-> "success"] @@ none
        ELSE [kind |-> IF c.ok THEN "success" ELSE "failed", name |-> qc_data.Name,
              reqs |-> c.reqs, created |-> c.created]

import_quick_connects_start == script = "import_quick_connects" /\ ImportStart

\* One iteration of `for qc_data in qcs_to_import` of import_quick_connects
import_quick_connects ==
    /\ script = "import_quick_connects"
    /\ pc = "loop"
    /\ \E outcome \in CreateOutcomes, tags \in TagsAt(pos + 1) :
          LET qc_data == file[pos + 1] @@ [Tags |-> tags]         \* qc_data.get('Tags')
              p == ProcessQuickConnect(qc_data, existing, dry_run, outcome)
          IN  /\ outcome = "created" => <<"quick_connect", qc_data.Name>> \notin created
              /\ CountOp(p.reqs, "create_quick_connect") = 0 => outcome = Unused /\ tags = <<>>
              /\ stepReqs' = p.reqs
              /\ issued' = issued \cup {p.reqs[n].op : n \in 1..Len(p.reqs)}
              /\ createCount' = [createCount EXCEPT
                                    ![pos + 1] = @ + CountOp(p.reqs, "create_quick_connect")]
              /\ created' = created \cup p.created
              /\ results' = Count(results, p.kind, p.name)
    /\ pos' = pos + 1
    /\ pc' = IF pos + 1 = Len(file) THEN "returned" ELSE "loop"
    /\ UNCHANGED <<script, mapVars, expVars, file, dry_run, batch_size, existing, sleeps, batches,
                   processed>>

(***************************************************************************)
(* The runs.                                                               *)
(***************************************************************************)
Exporters == {"export_users", "export_quick_connects", "export_queues"}
Importers == {"import_users", "import_queues", "import_quick_connects"}

\* export files an importer may be given
Files(s) ==
    CASE s = "import_users" -> SeqsUpTo(UserEntries, MaxItems)
      [] s = "import_queues" -> SeqsUpTo(QueueEntries, MaxItems)
      [] s = "import_quick_connects" -> SeqsUpTo(QuickConnectEntries, MaxItems)
      [] OTHER -> {<<>>}

\* what the target instance lists when the importer starts
Targets(s) ==
    CASE s = "import_users" ->
             [routing_profiles : SUBSET RoutingProfileNames,
              security_profiles : SUBSET SecurityProfileNames,
              hierarchy_groups : SUBSET HierarchyGroupNames]
      [] s = "import_queues" ->
             [queues : SUBSET ImportQueueNames,
              quick_connects : SUBSET {"Desk"},
              hours_of_operations : SUBSET HoursOfOperationNames]
      [] s = "import_quick_connects" ->
             [quick_connects : SUBSET ImportQuickConnectNames,
              users : {{}, {"alice"}},
              queues : {{}, {"Support"}}]
      [] OTHER -> {[quick_connects |-> {}]}

\* Everything but the listing: nothing exported, nothing imported yet.
InitRest(files, targets, sizes, mappings) ==
    /\ phone_number_mapping_file \in IF script = "import_queues" THEN mappings ELSE {<<>>}
    /\ phone_number_mapping = {}
    /\ bu_tag_value \in IF script = "export_queues" THEN BuTagValues ELSE {None}
    /\ queue_prefix \in IF script = "export_queues" THEN QueuePrefixes ELSE {None}
    /\ queue_cache = <<>>
    /\ matching_queues = <<>>
    /\ i = 1
    /\ exported = <<>>
    /\ failed_exports = <<>>
    /\ fetchReqs = <<>>
    /\ sinceSleep = 0
    /\ export_data = <<>>
    /\ fileWritten = FALSE
    /\ file \in files
    /\ dry_run \in IF script \in Importers THEN BOOLEAN ELSE {FALSE}
    /\ batch_size \in IF script = "import_users" THEN sizes ELSE {1}
    /\ existing \in targets
    /\ pos = 0
    /\ results = ZeroResults
    /\ stepReqs = <<>>
    /\ issued = {}
    /\ createCount = [n \in 1..Len(file) |-> 0]
    /\ created = {}
    /\ sleeps = 0
    /\ batches = <<>>
    /\ processed = <<>>

\* The state when main() of one of scripts starts, given an export file of
\* files, a target of targets, a --batch-size of sizes and a
\* --phone-mapping file of mappings.
InitFrom(scripts, files, targets, sizes, mappings) ==
    /\ script \in scripts
    /\ InitRest(files, targets, sizes, mappings)
    /\ pc = IF script \in Exporters THEN "list"
            ELSE IF phone_number_mapping_file # <<>> THEN "load" ELSE "start"
    /\ next_token = None
    /\ items = <<>>
    /\ listReqs = <<>>
    /\ listResps = <<>>

Init ==
    \E s \in Scripts : InitFrom({s}, Files(s), Targets(s), 1..MaxBatch, {<<>>})

Next ==
    \/ get_all_users
    \/ get_all_quick_connects
    \/ get_all_queues
    \/ export_users
    \/ export_quick_connects
    \/ WriteExport
    \/ build_queue_metadata_cache
    \/ export_queues_by_bu_tag
    \/ WriteQueueExport
    \/ import_users_start
    \/ import_users
    \/ import_queues_start
    \/ import_queues
    \/ import_quick_connects_start
    \/ import_quick_connects

Spec == Init /\ [][Next]_vars

\* The listing loops alone.  A list request the loop is about to send is sent,
\* and the service answers it or fails it: the loop is never left waiting.
ListingInit == Init /\ script \in Exporters
ListingNext == get_all_users \/ get_all_quick_connects \/ get_all_queues
ListingSpec == ListingInit /\ [][ListingNext]_vars /\ WF_vars(ListingNext)

\* import_users alone, on longer files of users that differ by name only, with
\* a target that lists every security profile or none.
BatchEntries == [Username : Usernames, SecurityProfiles : {<<SecurityProfile("Admin", None)>>}]
BatchFiles == SeqsUpTo(BatchEntries, MaxBatchFile)
BatchTargets ==
    [routing_profiles : {RoutingProfileNames},
     security_profiles : {SecurityProfileNames, {}},
     hierarchy_groups : {HierarchyGroupNames}]
BatchInit == InitFrom({"import_users"}, BatchFiles, BatchTargets, 1..MaxBatchSize, {<<>>})
BatchNext == import_users_start \/ import_users
BatchSpec == BatchInit /\ [][BatchNext]_vars

\* import_users alone, on files of one user whose security profile entries
\* have a 'SecurityProfileName', a 'Name' only, an empty 'SecurityProfileName'
\* next to a 'Name', or neither key.
ProfileEntries ==
    [Username : {"alice"},
     SecurityProfiles :
         { <<SecurityProfile("Admin", None)>>,
           <<SecurityProfile("Admin", None), SecurityProfile(None, "Agent")>>,
           <<SecurityProfile("Admin", None), SecurityProfile("", "Agent")>>,
           <<SecurityProfile("Admin", None), SecurityProfile(None, None)>> }]
ProfileFiles == SeqsUpTo(ProfileEntries, MaxItems)
ProfileInit ==
    InitFrom({"import_users"}, ProfileFiles, Targets("import_users"), 1..MaxBatch, {<<>>})
ProfileNext == import_users_start \/ import_users
ProfileSpec == ProfileInit /\ [][ProfileNext]_vars

\* import_queues run with --phone-mapping, on export files of at most one queue
MappingQueueFiles == SeqsUpTo(QueueEntries, 1)
MappingInit ==
    InitFrom({"import_queues"}, MappingQueueFiles, Targets("import_queues"), {1},
             {<<f>> : f \in MappingFiles})
MappingNext == load_phone_number_mapping \/ import_queues_start \/ import_queues
MappingSpec == MappingInit /\ [][MappingNext]_vars

\* The per-item loop of export_users / export_quick_connects alone, entered
\* after the listing loop returned one page of up to MaxExportItems summaries.
ExportLoopInit ==
    /\ script \in {"export_users", "export_quick_connects"}
    /\ InitRest(Files(script), Targets(script), {1}, {<<>>})
    /\ pc = "export"
    /\ next_token = None
    /\ \E n \in 1..MaxExportItems : items = Page(script, 0, n)
    /\ listReqs = <<RequestToken(None)>>
    /\ listResps = <<[Items |-> items, NextToken |-> None]>>
ExportLoopNext == export_users \/ export_quick_connects
ExportLoopSpec == ExportLoopInit /\ [][ExportLoopNext]_vars

(***************************************************************************)
(* Properties.                                                             *)
(***************************************************************************)
\* the listing loop has returned its list (it neither runs nor raised)
ListingReturned == script \in Exporters /\ pc # "list" /\ Len(listReqs) = Len(listResps)

\* C1: get_all_users / get_all_queues / get_all_quick_connects page through the
\* listing until a response carries no (non-empty) NextToken: the first list
\* request carries no NextToken, every later request carries exactly the
\* NextToken of the response just before it, and the returned list is the
\* concatenation of the items of all pages in request order.
C1_Pagination ==
    script \in Exporters =>
        /\ listReqs # <<>> => listReqs[1] = None
        /\ \A n \in 2..Len(listReqs) : listReqs[n] = listResps[n - 1].NextToken
        /\ \A n \in 1..(Len(listResps) - 1) : Truthy(listResps[n].NextToken)
        /\ pc = "list" /\ listResps # <<>> => Truthy(listResps[Len(listResps)].NextToken)
        /\ ListingReturned =>
              /\ listResps # <<>>
              /\ ~Truthy(listResps[Len(listResps)].NextToken)
              /\ items = Concat([n \in 1..Len(listResps) |-> listResps[n].Items])
              /\ \A m, n \in 1..Len(items) : m # n => items[m].Id # items[n].Id

\* two non-empty pages were fetched and the list was returned
C1_Witness ==
    /\ ListingReturned
    /\ Len(listResps) = 2
    /\ listResps[1].Items # <<>>
    /\ listResps[2].Items # <<>>

\* the list the export loop of the running exporter iterates over
ExportList == IF script = "export_queues" THEN matching_queues ELSE items

\* C2: in export_users, export_quick_connects and export_queues_by_bu_tag a
\* failure while fetching the details of one item never aborts the run: the
\* item is recorded in the Failed list of the export data with its id, name and
\* error, and every item after it is still processed.
C2_FailuresSkipped ==
    script \in Exporters =>
        \A n \in 1..Len(fetchReqs) :
            fetchReqs[n].Outcome # "ok" =>
                \* the run goes on to the later items and to the export data
                /\ pc = "export" => i = Len(fetchReqs) + 1 /\ i <= Len(ExportList)
                /\ pc # "export" =>
                      /\ Len(fetchReqs) = Len(ExportList)
                      /\ pc = "raised" => export_data # <<>>
                /\ export_data # <<>> =>
                      \E m \in 1..Len(export_data[1].Failed) :
                          export_data[1].Failed[m] =
                              [Id |-> ExportList[n].Id, Name |-> GetName(ExportList[n]),
                               Error |-> fetchReqs[n].Outcome]

CreationRequests ==
    {"create_user", "create_queue", "create_quick_connect", "associate_queue_quick_connects"}

\* C3: with dry_run=True, import_users, import_queues and import_quick_connects
\* never issue a create_user, create_queue, create_quick_connect or
\* associate_queue_quick_connects request.
C3_DryRunCreatesNothing ==
    script \in Importers /\ dry_run =>
        /\ issued \cap CreationRequests = {}
        /\ \A n \in 1..Len(stepReqs) : stepReqs[n].op \notin CreationRequests
        /\ \A n \in 1..Len(createCount) : createCount[n] = 0

\* a dry run went through a file of two entries that it would create
C3_Witness ==
    /\ script \in Importers
    /\ dry_run
    /\ pc = "returned"
    /\ results.success = 2

\* C4: a dry run of import_users only validates: no request that changes the
\* target instance is issued (in particular no create_routing_profile), so the
\* target instance is the same before and after the run.
C4_DryRunChangesNothing ==
    script = "import_users" /\ dry_run =>
        /\ "create_routing_profile" \notin issued
        /\ created = {}

\* the names an exported security profile carries
ProfileNames(sp) == {sp.SecurityProfileName, sp.Name} \ {None}

\* the usernames of the file that reference a profile the target does not list
UsersMissingProfiles ==
    {file[k].Username :
        k \in {n \in 1..Len(file) :
                 \E m \in 1..Len(file[n].SecurityProfiles) :
                     ProfileNames(file[n].SecurityProfiles[m]) \ existing.security_profiles # {}}}

\* C5: in a non-dry run of import_users, if a security profile named by any
\* user of the export file is absent from the target, the run creates nothing
\* and returns success = 0, skipped = 0 and failed = the number of distinct
\* usernames that reference a missing profile.
C5_MissingProfilesAbort ==
    script = "import_users" /\ ~dry_run /\ UsersMissingProfiles # {} =>
        /\ pc \in {"start", "returned", "raised"}
        /\ issued = {}
        /\ created = {}
        /\ pc = "returned" =>
              /\ results.success = 0
              /\ results.skipped = 0
              /\ results.failed = Cardinality(UsersMissingProfiles)

\* two entries of one username both need a missing profile: one failed user
C5_Witness ==
    /\ script = "import_users"
    /\ ~dry_run
    /\ pc = "returned"
    /\ Len(file) = 2
    /\ file[1].Username = file[2].Username
    /\ UsersMissingProfiles # {}
    /\ results.failed = 1

\* the create_user requests of the latest step
CreateUserRequests == {n \in 1..Len(stepReqs) : stepReqs[n].op = "create_user"}

\* C6: every create_user request carries a non-empty RoutingProfileId and a
\* non-empty SecurityProfileIds list; every ID in SecurityProfileIds (and
\* HierarchyGroupId when present) is the ID the target lists under the name of
\* the corresponding exported object, never an ID of the source instance; a
\* hierarchy group with no same-named target is omitted.
C6_MappedIds ==
    script = "import_users" =>
        \A n \in CreateUserRequests :
            LET r == stepReqs[n]
                u == r.user_data
                names == UNION {ProfileNames(u.SecurityProfiles[m]) :
                                   m \in 1..Len(u.SecurityProfiles)}
            IN  /\ r.RoutingProfileId # NoId
                /\ r.RoutingProfileId[1] = "target"
                /\ r.SecurityProfileIds # <<>>
                /\ \A m \in 1..Len(r.SecurityProfileIds) :
                       \E name \in names \cap existing.security_profiles :
                           r.SecurityProfileIds[m] = TargetId(name)
                /\ r.HierarchyGroupId # NoId =>
                       /\ u.HierarchyGroup \in existing.hierarchy_groups
                       /\ r.HierarchyGroupId = TargetId(u.HierarchyGroup)
                /\ u.HierarchyGroup \notin existing.hierarchy_groups =>
                       r.HierarchyGroupId = NoId

\* a user with two security profiles, whose hierarchy group the target does not
\* list, was requested without a HierarchyGroupId
C6_Witness ==
    /\ script = "import_users"
    /\ \E n \in CreateUserRequests :
          /\ Len(stepReqs[n].SecurityProfileIds) = 2
          /\ stepReqs[n].user_data.HierarchyGroup = "Team"
          /\ stepReqs[n].HierarchyGroupId = NoId

\* the Id the target instance gives the object that has Id id in the source
EquivalentId(id) == TargetId(id[2])

\* C7: for a USER or QUEUE quick connect, the UserId / QueueId in the
\* QuickConnectConfig sent to create_quick_connect by the quick connect
\* importer is the ID of the equivalent user / queue of the target instance,
\* not the ID stored in the export file.
C7_SubstitutedKeys ==
    script = "import_quick_connects" =>
        \A n \in 1..Len(stepReqs) :
            LET r == stepReqs[n]
                exported_config == file[pos].QuickConnectConfig
            IN  r.op = "create_quick_connect" =>
                  /\ (/\ r.QuickConnectConfig.QuickConnectType = "USER"
                      /\ exported_config.UserId[2] \in existing.users) =>
                        r.QuickConnectConfig.UserId = EquivalentId(exported_config.UserId)
                  /\ (/\ r.QuickConnectConfig.QuickConnectType = "QUEUE"
                      /\ exported_config.QueueId[2] \in existing.queues) =>
                        r.QuickConnectConfig.QueueId = EquivalentId(exported_config.QueueId)

\* C8: retries are absent: within one export_users run describe_user is
\* requested at most once per listed user, and within one import_users run
\* create_user is requested at most once per user entry of the export file.
C8_NoRetries ==
    /\ script = "export_users" =>
          \A n \in 1..Len(items) :
              Cardinality({m \in 1..Len(fetchReqs) : fetchReqs[m].Id = items[n].Id}) <= 1
    /\ script = "import_users" =>
          /\ \A n \in 1..Len(createCount) : createCount[n] <= 1
          /\ Cardinality(CreateUserRequests) <= 1

\* an export_users run ended after a describe_user request had failed
C8_Witness ==
    /\ script = "export_users"
    /\ pc = "returned"
    /\ Len(items) >= 2
    /\ \E n \in 1..Len(fetchReqs) : fetchReqs[n].Outcome # "ok"

\* the request that creates the entry itself in the running importer
PrimaryOp ==
    CASE script = "import_users" -> "create_user"
      [] script = "import_queues" -> "create_queue"
      [] OTHER -> "create_quick_connect"

\* the name of the object a creation request is for
RequestName(r) == IF r.op = "create_user" THEN r.Username ELSE r.Name

\* a step that processes one entry treats rejected creation requests as C9 says
RejectionCounted ==
    script \in Importers /\ pos' = pos + 1 =>
        \A n \in 1..Len(stepReqs') :
            LET r == stepReqs'[n] IN
            (r.op = PrimaryOp /\ r.response # "created") =>
                /\ pc' = IF pos' < Len(file) THEN "loop" ELSE "returned"
                /\ IF r.response = DuplicateResourceException
                   THEN /\ results'.success = results.success + 1
                        /\ results'.failed = results.failed
                        /\ results'.failed_items = results.failed_items
                   ELSE /\ results'.success = results.success
                        /\ results'.failed = results.failed + 1
                        /\ results'.failed_items =
                               Append(results.failed_items, RequestName(r))

\* C9: a create_user, create_queue or create_quick_connect request for an entry
\* rejected with DuplicateResourceException counts the entry as success; a
\* rejection with any other error counts it as failed, adds its name to the
\* failed list, and the run continues with the next entry.
C9_DuplicateIsSuccess == [][RejectionCounted]_vars

\* a create_user request was rejected as a duplicate after an earlier entry failed
C9_Witness ==
    /\ script = "import_users"
    /\ results.success = 1
    /\ results.failed = 1
    /\ \E n \in CreateUserRequests : stepReqs[n].response = DuplicateResourceException

\* the names the target listed, at the start, for the objects the importer creates
ListedNames == IF script = "import_queues" THEN existing.queues ELSE existing.quick_connects

\* C10: import_queues and import_quick_connects issue no creation request for
\* an entry whose name is among the names listed in the target instance at the
\* start of the run; each such entry is counted as skipped, in dry runs and
\* real runs alike.
C10_ExistingSkipped ==
    script \in {"import_queues", "import_quick_connects"} =>
        /\ \A n \in 1..pos : file[n].Name \in ListedNames => createCount[n] = 0
        /\ pos > 0 /\ file[pos].Name \in ListedNames => stepReqs = <<>>
        /\ results.skipped = Cardinality({n \in 1..pos : file[n].Name \in ListedNames})

\* a real import_queues run skipped one listed queue and created another
C10_Witness ==
    /\ script = "import_queues"
    /\ ~dry_run
    /\ pc = "returned"
    /\ results.skipped = 1
    /\ results.success = 1
    /\ "create_queue" \in issued

\* spellings that equal 'bu' / the BU values of the model when case is ignored
CaseVariants(str) ==
    CASE str = "bu" -> {"bu", "BU", "Bu", "bU"}
      [] str = "Sales" -> {"Sales", "SALES", "sales"}
      [] OTHER -> {str}

\* the queue names of the model that start with prefix, case-sensitively
NamesWithPrefix(prefix) == IF prefix = "Q_" THEN {"Q_a"} ELSE {}

\* the cached queue passes both filters, as C11 words them
PassesBothFilters(q) ==
    /\ \E tag \in q.Tags : tag[1] \in CaseVariants("bu") /\ tag[2] \in CaseVariants(bu_tag_value)
    /\ queue_prefix # None => q.Name \in NamesWithPrefix(queue_prefix)

\* Ids of the queues whose details were requested
FetchedIds == {fetchReqs[n].Id : n \in 1..Len(fetchReqs)}

C12_QueueExportWritten ==
    script = "export_queues" /\ queue_cache # <<>> =>
        /\ pc = "raised" => export_data # <<>>
        /\ pc = "returned" => fileWritten

\* C13: whenever export_users, export_quick_connects or export_queues_by_bu_tag
\* returns normally, a file has been written at the returned path during the run.
C13_ReturnedFileWritten ==
    script \in Exporters /\ pc = "returned" => fileWritten

\* 'Tags' of the export-file entry a creation request is for
EntryTags(r) == IF r.op = "create_user" THEN r.user_data.Tags ELSE r.exported_tags

\* C14: a non-empty tag set exported for a user, a queue or a quick connect is
\* passed unchanged as the Tags of the create_user, create_queue or
\* create_quick_connect request for that item, and an item exported without
\* tags is created with no Tags parameter.
C14_TagsSurvive ==
    script \in Importers =>
        \A n \in 1..Len(stepReqs) :
            LET r == stepReqs[n] IN
            r.op = PrimaryOp =>
                IF EntryTags(r) \in {<<>>, <<{}>>}
                THEN r.Tags = <<>>
                ELSE r.Tags = EntryTags(r)

\* a queue exported with the tag Team=Sales was created with that tag
C14_Witness ==
    /\ script = "import_queues"
    /\ \E n \in 1..Len(stepReqs) :
          /\ stepReqs[n].op = "create_queue"
          /\ stepReqs[n].exported_tags = <<{<<"Team", "Sales">>}>>
          /\ stepReqs[n].Tags = <<{<<"Team", "Sales">>}>>
          /\ stepReqs[n].response = "created"

\* the create_routing_profile requests of the latest step
CreateRoutingProfileRequests ==
    {n \in 1..Len(stepReqs) : stepReqs[n].op = "create_routing_profile"}

LastPageSeen == listResps # <<>> /\ listResps[Len(listResps)].NextToken \in {None, ""}

\* the last list request failed
ListRequestFailed == Len(listReqs) > Len(listResps)

\* after the last page or a failed request the loop has ended and sends nothing more
ListingEnded ==
    /\ LastPageSeen => pc # "list" /\ pc # "raised" /\ Len(listReqs) = Len(listResps)
    /\ ListRequestFailed => pc = "raised" /\ Len(listReqs) = Len(listResps) + 1

\* a step taken after the last page or after a failed request sends no list request
NoListRequestAfterEnd == LastPageSeen \/ ListRequestFailed => listReqs' = listReqs

\* C16: each pagination loop of the exporters terminates: once the service
\* returns a page whose NextToken is absent or empty the loop returns after
\* that page and issues no further list request, a failing list request ends
\* the loop by raising instead of being retried, and the loop does end.
C16_PaginationTerminates ==
    /\ []ListingEnded
    /\ [][NoListRequestAfterEnd]_vars
    /\ <>(pc # "list")

\* a loop ended by a failing second request, after a first page with a NextToken
C16_Witness ==
    /\ pc = "raised"
    /\ Len(listReqs) = 2
    /\ Len(listResps) = 1
    /\ listResps[1].NextToken \in Tokens

\* ceil(n / d)
CeilDiv(n, d) == (n + d - 1) \div d

\* C17: for every batch_size >= 1 and every export file with n users that
\* passes the security-profile check, import_users processes each user entry
\* exactly once, in file order, in ceil(n / batch_size) consecutive batches of
\* at most batch_size users each, whatever batch_size is.
C17_Batches ==
    script = "import_users" /\ pc \in {"loop", "returned"} /\ ~(pc = "returned" /\ pos < Len(file)) =>
        /\ processed = SubSeq(file, 1, pos)
        /\ \A n \in 1..Len(batches) : batches[n] >= 1 /\ batches[n] <= batch_size
        /\ \A n \in 1..(Len(batches) - 1) : batches[n] = batch_size
        /\ SumSeq(batches) <= pos
        /\ pos - SumSeq(batches) < batch_size
        /\ pc = "returned" =>
              /\ processed = file
              /\ SumSeq(batches) = Len(file)
              /\ Len(batches) = CeilDiv(Len(file), batch_size)

\* four users went through in two batches, the last one partial
C17_Witness ==
    /\ script = "import_users"
    /\ pc = "returned"
    /\ Len(file) = 4
    /\ batch_size = 3
    /\ batches = <<3, 1>>
    /\ processed = file

TemplateFormat ==
    /\ phone_number_mapping_file # <<>>
    /\ phone_number_mapping_file[1].phone_number_mappings # <<>>

\* C19: when import_queues loads a mapping file in the template format
\* written by create_mapping_template, phone_number_mapping ends up with only
\* real source-ID to target-ID pairs: neither the template's example entry
\* nor its '#' comment entry.
C19_NoPlaceholderMapped ==
    script = "import_queues" /\ TemplateFormat /\ pc \notin {"load", "raised"} =>
        /\ phone_number_mapping \cap TemplatePlaceholders = {}
        /\ phone_number_mapping \subseteq RealMappings

\* C20: during export_users and export_quick_connects at most 10 consecutive
\* per-item detail fetches are made without a sleep in between, whatever
\* subset of the fetches fails.
C20_SleepEveryTen ==
    script \in {"export_users", "export_quick_connects"} => sinceSleep <= 10

\* C21: in a non-dry import_users run a sleep separates every two consecutive
\* batches and none follows the last batch, so a run of k >= 1 batches sleeps
\* exactly k - 1 times (a run without batches never sleeps); a dry run never
\* sleeps between batches.
C21_SleepsBetweenBatches ==
    script = "import_users" =>
        /\ dry_run => sleeps = 0
        /\ batches = <<>> => sleeps = 0
        /\ ~dry_run /\ batches # <<>> =>
              \* every completed batch but the last of the file was followed by a sleep
              sleeps = IF SumSeq(batches) = Len(file) THEN Len(batches) - 1
                       ELSE Len(batches)
        /\ ~dry_run /\ pc = "returned" /\ batches # <<>> => sleeps = Len(batches) - 1

\* a real run of three batches returned after two sleeps
C21_Witness ==
    /\ script = "import_users"
    /\ ~dry_run
    /\ pc = "returned"
    /\ Len(batches) = 3
    /\ sleeps = 2

====
